---- MODULE Spec2Model ----
(***************************************************************************)
(* A model of the taish client library (tools/taish/client/taish).         *)
(*                                                                         *)
(*   - the values the library passes around (Module objects, the dict     *)
(*     returned by list, TAIException and the other exceptions);           *)
(*   - the operations of AsyncClient as operators computing the returned   *)
(*     (or raised) value together with the remote calls they issue;        *)
(*   - the synchronous facade Client: caller threads, the two queues, the  *)
(*     worker thread and close().                                          *)
(***************************************************************************)
EXTENDS Integers, Sequences, FiniteSets, TLC

\* ------------------------------------------------------------------ bounds
\* Total number of facade calls the caller threads issue in one behaviour.
MaxReq == 3
\* Longest module listing the remote service answers with.
MaxModules == 2
\* Longest attrs argument given to create.
MaxAttrs == 2
\* Number of notifications the remote pushes on one Monitor stream.
MaxMsgs == 2

\* Caller threads sharing one facade.
Callers == {"t1", "t2"}
\* Module locations of the deployment.
Locations == {"L1", "L2"}
\* Object ids the remote reports for a module (0 means "not created").
ModuleOids == {0, 7}

\* ------------------------------------------------------------------ values
\* The owner an object's client field points at: the facade (Client), the
\* AsyncClient private to the facade's worker, or "" when there is none.
NoRec == [location |-> "", present |-> FALSE, oid |-> 0]
NoDict == [l \in {} |-> [client |-> "", obj |-> NoRec]]

\* Every Python value of the model has this shape; kind tells what it is.
Val(kind, code, msg, client, obj, items) ==
    [kind |-> kind, code |-> code, msg |-> msg, client |-> client,
     obj |-> obj, items |-> items]

NoneVal == Val("None", 0, <<>>, "", NoRec, NoDict)

\* TAIException(code, msg): the two fields set by __init__.
TAIException(code, msg) == Val("TAIException", code, msg, "", NoRec, NoDict)

\* A built-in exception raised with one message argument.
PyException(kind, msg) == Val(kind, 0, msg, "", NoRec, NoDict)

\* Module(client, obj): TAIObject.__init__ stores the owner and the record.
Module(client, obj) == Val("Module", 0, <<>>, client, obj, NoDict)

\* isinstance(v, Exception)
IsException(v) ==
    v.kind \in {"TAIException", "Exception", "AttributeError", "TypeError",
                "UnboundLocalError", "IndexError", "KeyError"}

\* isinstance(v, TAIObject)
IsTAIObject(v) == v.kind \in {"Module", "NetIf", "HostIf"}

\* check_metadata: a nonzero tai-status-code raises TAIException(code, msg).
check_metadata(footer) ==
    IF footer.code # 0 THEN TAIException(footer.code, footer.msg) ELSE NoneVal

\* ------------------------------------------------------ the remote service
\* The status footer (trailing metadata) of an exchange.
OkFooter == [code |-> 0, msg |-> <<>>]
ErrFooter == [code |-> -2, msg |-> <<"TAI_STATUS_FAILURE">>]
Footers == {OkFooter, ErrFooter}

\* The records a ListModule answer can hold, and the answers themselves.
ModuleRecs == [location : Locations, present : BOOLEAN, oid : ModuleOids]
RECURSIVE SeqsUpTo(_, _)
SeqsUpTo(S, n) ==
    IF n = 0 THEN {<<>>}
    ELSE LET shorter == SeqsUpTo(S, n - 1)
         IN shorter \cup {Append(q, x) : q \in {r \in shorter : Len(r) = n - 1}, x \in S}
Listings == SeqsUpTo(ModuleRecs, MaxModules)

\* ------------------------------------------------- AsyncClient operations
\* What an operation did: the value it returned or raised, and the remote
\* calls it issued, in order ("open:X" opens a stream of method X,
\* "close:X" releases it, "unary:X" is a one-shot call through the stub).
Done(ret, calls) == [ret |-> ret, calls |-> calls]

\* AsyncClient.list: one Module per record, keyed by location; a later
\* record with the same location overwrites the earlier one.
list(self, ms) ==
    LET keys == {ms[i].location : i \in DOMAIN ms}
        last(l) == CHOOSE i \in DOMAIN ms :
                      /\ ms[i].location = l
                      /\ \A j \in DOMAIN ms : ms[j].location = l => j <= i
        d == [l \in keys |-> [client |-> self, obj |-> ms[last(l)]]]
    IN Done(Val("dict", 0, <<>>, "", NoRec, d), <<"unary:ListModule">>)

RECURSIVE get_module_from(_, _, _, _)

\* The loop of get_module with its two tests swapped: the id is tested
\* before present.
get_module_from_OidFirst(self, ms, location, i) ==
    IF i > Len(ms) THEN TAIException(-1, <<"no module", location, "found">>)
    ELSE LET m == ms[i]
         IN IF m.location # location THEN get_module_from(self, ms, location, i + 1)
            ELSE IF m.oid = 0 THEN TAIException(-1, <<"module", location, "not created yet">>)
            ELSE IF ~m.present THEN TAIException(-1, <<"module", location, "not present">>)
            ELSE Module(self, m)

\* The loop of AsyncClient.get_module from record i on: records of other
\* locations are skipped, the first record at the location decides.
get_module_from(self, ms, location, i) ==
    IF i > Len(ms) THEN TAIException(-1, <<"no module", location, "found">>)
    ELSE LET m == ms[i]
         IN IF m.location # location THEN get_module_from(self, ms, location, i + 1)
            ELSE IF ~m.present THEN TAIException(-1, <<"module", location, "not present">>)
            ELSE IF m.oid = 0 THEN TAIException(-1, <<"module", location, "not created yet">>)
            ELSE Module(self, m)

\* AsyncClient.get_module
get_module(self, ms, location) ==
    Done(get_module_from(self, ms, location, 1), <<"unary:ListModule">>)

\* AsyncClient.remove: one Remove exchange, then the footer check.
remove(oid, footer) ==
    Done(check_metadata(footer),
         <<"open:Remove", "send:Remove", "recv:Remove", "trailers:Remove", "close:Remove">>)

\* The names the two if/elif chains of set_log_level recognise.
LogLevels == {"debug", "info", "notice", "warn", "error", "critical"}
ApiScopes == {"module", "netif", "hostif", "unspecified"}

\* set_log_level without the final else of the api chain: an unknown scope
\* is sent as it is.
set_log_level_NoApiCheck(l, api) ==
    IF l \notin LogLevels THEN Done(PyException("Exception", <<"invalid log level", l>>), <<>>)
    ELSE Done(NoneVal, <<"unary:SetLogLevel">>)

\* AsyncClient.set_log_level: both names are validated before the call.
set_log_level(l, api) ==
    IF l \notin LogLevels THEN Done(PyException("Exception", <<"invalid log level", l>>), <<>>)
    ELSE IF api \notin ApiScopes THEN Done(PyException("Exception", <<"invalid api type">>), <<>>)
    ELSE Done(NoneVal, <<"unary:SetLogLevel">>)

\* ------------------------------------------ attributes and their metadata
\* An attribute descriptor (taish_pb2.AttributeMetadata), and the message
\* with every field at its default.
Meta(attr_id, name, usage) == [attr_id |-> attr_id, name |-> name, usage |-> usage]
EmptyMeta == Meta(0, "", "")

\* The descriptors the remote metadata service knows.
MetaDB ==
    {Meta(1, "location", "<string>"), Meta(2, "index", "<int>"),
     Meta(3, "notify", "<notification>"), Meta(4, "tx-dis", "<bool>")}

\* The remote's answer to ListAttributeMetadata: its descriptors, by id.
RemoteMetaList ==
    <<Meta(1, "location", "<string>"), Meta(2, "index", "<int>"),
      Meta(3, "notify", "<notification>"), Meta(4, "tx-dis", "<bool>")>>

\* An attribute reference: an int, a str or a descriptor (type(attr)).
IntRef(k) == [t |-> "int", attr_id |-> k, name |-> "", usage |-> ""]
StrRef(n) == [t |-> "str", attr_id |-> 0, name |-> n, usage |-> ""]
MetaRef(d) == [t |-> "meta", attr_id |-> d.attr_id, name |-> d.name, usage |-> d.usage]
AsMeta(ref) == Meta(ref.attr_id, ref.name, ref.usage)

\* The remote's answer to GetAttributeMetadata: the descriptor with the
\* requested id or name, or an empty message and a nonzero status.
RemoteMetadata(by_id, attr_id, name) ==
    LET hits == {d \in MetaDB : IF by_id THEN d.attr_id = attr_id ELSE d.name = name}
    IN IF hits = {} THEN [footer |-> ErrFooter, metadata |-> EmptyMeta]
       ELSE [footer |-> OkFooter, metadata |-> CHOOSE d \in hits : TRUE]

\* The remote's value of attribute attr_id of object oid, serialized.
RemoteValue(ms, oid, attr_id) ==
    IF attr_id = 1 /\ \E i \in DOMAIN ms : ms[i].oid = oid
    THEN ms[CHOOSE i \in DOMAIN ms : ms[i].oid = oid].location
    ELSE CASE attr_id = 2 -> "0" [] attr_id = 3 -> "n" [] attr_id = 4 -> "false"
           [] OTHER -> ""

\* What get_attribute_metadata did: ret is NoneVal or the exception raised,
\* metadata the descriptor returned.
MetaDone(ret, metadata, calls) == [ret |-> ret, metadata |-> metadata, calls |-> calls]

\* get_attribute_metadata with the stream opened outside a with block: an
\* exception leaves the function without closing the stream.
get_attribute_metadata_NoRelease(object_type, attr, oid, location) ==
    IF attr.t \notin {"int", "str"}
    THEN MetaDone(PyException("Exception", <<"invalid argument">>), EmptyMeta,
                  <<"open:GetAttributeMetadata">>)
    ELSE LET res == RemoteMetadata(attr.t = "int", attr.attr_id, attr.name)
             exc == check_metadata(res.footer)
         IN MetaDone(exc, IF IsException(exc) THEN EmptyMeta ELSE res.metadata,
                     <<"open:GetAttributeMetadata", "send:GetAttributeMetadata",
                       "recv:GetAttributeMetadata", "trailers:GetAttributeMetadata">>
                         \o (IF IsException(exc) THEN <<>>
                             ELSE <<"close:GetAttributeMetadata">>))

\* AsyncClient.get_attribute_metadata: one GetAttributeMetadata exchange; a
\* reference that is neither int nor str raises inside the stream's scope.
get_attribute_metadata(object_type, attr, oid, location) ==
    IF attr.t \notin {"int", "str"}
    THEN MetaDone(PyException("Exception", <<"invalid argument">>), EmptyMeta,
                  <<"open:GetAttributeMetadata", "close:GetAttributeMetadata">>)
    ELSE LET res == RemoteMetadata(attr.t = "int", attr.attr_id, attr.name)
             exc == check_metadata(res.footer)
         IN MetaDone(exc, IF IsException(exc) THEN EmptyMeta ELSE res.metadata,
                     <<"open:GetAttributeMetadata", "send:GetAttributeMetadata",
                       "recv:GetAttributeMetadata", "trailers:GetAttributeMetadata",
                       "close:GetAttributeMetadata">>)

\* -------------------------------------------------------- get and create
\* One entry of the attributes argument of get_multiple: a bare reference, or
\* the tuple (reference, value); value "" stands for None.
Entry(tuple, ref, value) == [tuple |-> tuple, ref |-> ref, value |-> value]

\* A taish_pb2.Attribute of a request.
Attr(attr_id, value) == [attr_id |-> attr_id, value |-> value]

\* What get_multiple did: ret is NoneVal or the exception raised, values the
\* returned list (value, or value paired with a descriptor), req the
\* attributes of the request sent (<<>> when none was sent).
GmDone(ret, values, req, calls) ==
    [ret |-> ret, values |-> values, req |-> req, calls |-> calls]

\* The locals of get_multiple before its first iteration: meta and a are
\* unbound, the request holds no attribute, nothing was raised.
GmStart ==
    [exc |-> NoneVal, meta |-> EmptyMeta, metaBound |-> FALSE,
     a |-> Attr(0, ""), aBound |-> FALSE, req |-> <<>>,
     calls |-> <<"open:GetAttribute">>]

\* a = Attribute(); a.attr_id = attr_id; req.attributes.append(a): append
\* stores a copy of a, so a later write to the local a does not reach req.
GmAppend(st, attr_id) ==
    [st EXCEPT !.a = Attr(attr_id, ""), !.aBound = TRUE,
               !.req = Append(st.req, Attr(attr_id, ""))]

\* One iteration of the for loop of get_multiple, on entry e; lookup is what
\* get_attribute_metadata does for e's reference, used where the code calls it.
GmStep(st, e, lookup, with_metadata) ==
    LET value == IF e.tuple THEN e.value ELSE ""
        attr == e.ref
        looked == [st EXCEPT !.calls = st.calls \o lookup.calls]
        found == [looked EXCEPT !.meta = lookup.metadata, !.metaBound = TRUE]
        given == [st EXCEPT !.meta = AsMeta(attr), !.metaBound = TRUE]
    IN CASE attr.t = "int" /\ ~with_metadata -> GmAppend(st, attr.attr_id)
         [] attr.t = "int" /\ with_metadata ->
              IF IsException(lookup.ret) THEN [looked EXCEPT !.exc = lookup.ret]
              ELSE GmAppend(found, attr.attr_id)
         [] attr.t = "str" ->
              IF IsException(lookup.ret) THEN [looked EXCEPT !.exc = lookup.ret]
              ELSE GmAppend(found, lookup.metadata.attr_id)
         [] OTHER ->
              IF value = "" THEN GmAppend(given, attr.attr_id)
              ELSE IF ~st.aBound
              THEN [given EXCEPT !.exc = PyException("UnboundLocalError", <<"a">>)]
              ELSE GmAppend([given EXCEPT !.a.value = value], attr.attr_id)

\* The for loop of get_multiple from entry i on; it ends when an iteration
\* raises.
RECURSIVE GmLoop(_, _, _, _, _, _)
GmLoop(object_type, oid, attributes, with_metadata, i, st) ==
    IF i > Len(attributes) \/ IsException(st.exc) THEN st
    ELSE GmLoop(object_type, oid, attributes, with_metadata, i + 1,
                GmStep(st, attributes[i],
                       get_attribute_metadata(object_type, attributes[i].ref, oid, ""),
                       with_metadata))

\* The remote's answer to GetAttribute: one value per requested attribute,
\* or no attribute and a nonzero status (the footer given, or an unknown id).
RemoteGet(ms, oid, req, footer) ==
    IF footer.code # 0 \/ \E k \in DOMAIN req : \A d \in MetaDB : d.attr_id # req[k].attr_id
    THEN [footer |-> IF footer.code # 0 THEN footer ELSE ErrFooter, attributes |-> <<>>]
    ELSE [footer |-> footer,
          attributes |-> [k \in DOMAIN req |-> Attr(req[k].attr_id,
                                                    RemoteValue(ms, oid, req[k].attr_id))]]

\* get_multiple after its for loop, res being the remote's answer: the
\* exchange, the footer check, and the list built from res.attributes, each
\* value paired with the local meta when metadata was asked for.
GmFinish(st, res, with_metadata) ==
    LET exchange == <<"send:GetAttribute", "recv:GetAttribute", "trailers:GetAttribute",
                      "close:GetAttribute">>
    IN IF IsException(st.exc)
       THEN GmDone(st.exc, <<>>, <<>>, Append(st.calls, "close:GetAttribute"))
       ELSE IF IsException(check_metadata(res.footer))
       THEN GmDone(check_metadata(res.footer), <<>>, st.req, st.calls \o exchange)
       ELSE IF with_metadata /\ ~st.metaBound /\ res.attributes # <<>>
       THEN GmDone(PyException("UnboundLocalError", <<"meta">>), <<>>, st.req,
                   st.calls \o exchange)
       ELSE GmDone(NoneVal,
                   [k \in DOMAIN res.attributes |->
                       [value |-> res.attributes[k].value, paired |-> with_metadata,
                        meta |-> IF with_metadata THEN st.meta ELSE EmptyMeta]],
                   st.req, st.calls \o exchange)

\* The remote's answer to the request the loop built.
GmAnswer(st, ms, oid, footer) == RemoteGet(ms, oid, st.req, footer)

\* get_multiple, given the state its for loop ended in.
GmAfterLoop(st, with_metadata, ms, oid, footer) ==
    GmFinish(st, GmAnswer(st, ms, oid, footer), with_metadata)

\* AsyncClient.get_multiple
get_multiple(object_type, oid, attributes, with_metadata, ms, footer) ==
    GmAfterLoop(GmLoop(object_type, oid, attributes, with_metadata, 1, GmStart),
                with_metadata, ms, oid, footer)

\* return v[0], for the list v that get_multiple returned.
GetFirst(v) ==
    IF ~IsException(v.ret) /\ v.values = <<>>
    THEN [v EXCEPT !.ret = PyException("IndexError", <<"list index out of range">>)]
    ELSE v

\* AsyncClient.get: get_multiple of the one tuple (attr, value), then v[0].
get(object_type, oid, attr, with_metadata, value, ms, footer) ==
    GetFirst(get_multiple(object_type, oid, <<Entry(TRUE, attr, value)>>, with_metadata,
                          ms, footer))

\* An int returned by an operation (an object id).
IntVal(n) == Val("int", n, <<>>, "", NoRec, NoDict)

\* The canonical type tag of an object type given by tag or by name.
ObjectTypeTag(object_type) ==
    CASE object_type = "module" -> "MODULE"
      [] object_type = "netif" -> "NETIF"
      [] object_type = "hostif" -> "HOSTIF"
      [] OTHER -> object_type

\* One (key, value) pair of the attrs argument of create.
KV(key, value) == [key |-> key, value |-> value]

\* key == "location", for a key that is an int, a str or a descriptor.
IsLocationKey(key) == key.t = "str" /\ key.name = "location"

\* What create did: ret is the new object's id or the exception raised, req
\* the attributes of the Create request sent (<<>> when none was sent).
CreateDone(ret, req, calls) == [ret |-> ret, req |-> req, calls |-> calls]

\* One iteration of the second for loop of create, on the pair kv; lookup is
\* what get_attribute_metadata did for its key.
CreateStep(st, kv, lookup) ==
    IF IsException(lookup.ret)
    THEN [st EXCEPT !.calls = st.calls \o lookup.calls, !.exc = lookup.ret]
    ELSE [st EXCEPT !.calls = st.calls \o lookup.calls,
                    !.req = Append(st.req, Attr(lookup.metadata.attr_id, kv.value))]

\* The second for loop of create from pair i on: each key is resolved by a
\* metadata lookup scoped to the location.
RECURSIVE CreateLoop(_, _, _, _, _)
CreateLoop(object_type, attrs, location, i, st) ==
    IF i > Len(attrs) \/ IsException(st.exc) THEN st
    ELSE CreateLoop(object_type, attrs, location, i + 1,
                    CreateStep(st, attrs[i],
                               get_attribute_metadata(object_type, attrs[i].key, 0, location)))

\* create after its second for loop: the Create exchange and the footer check.
CreateFinish(st, footer) ==
    IF IsException(st.exc)
    THEN CreateDone(st.exc, <<>>, Append(st.calls, "close:Create"))
    ELSE CreateDone(IF IsException(check_metadata(footer)) THEN check_metadata(footer)
                    ELSE IntVal(9),
                    st.req,
                    st.calls \o <<"send:Create", "recv:Create", "trailers:Create",
                                   "close:Create">>)

\* create from "async with self.stub.Create.open()" on, the location known;
\* before holds the remote calls made to find the location.
create_exchange(tag, attrs, location, before, footer) ==
    IF tag \notin {"MODULE", "NETIF", "HOSTIF"}
    THEN CreateDone(PyException("TypeError", <<"object_type">>), <<>>,
                    before \o <<"open:Create", "close:Create">>)
    ELSE CreateFinish(CreateLoop(tag, attrs, location, 1,
                                 [exc |-> NoneVal, req |-> <<>>,
                                  calls |-> Append(before, "open:Create")]),
                      footer)

\* create with a parent module: g is what get did for its location attribute.
create_under(object_type, attrs, g, footer) ==
    IF IsException(g.ret) THEN CreateDone(g.ret, <<>>, g.calls)
    ELSE create_exchange(ObjectTypeTag(object_type), attrs, g.values[1].value, g.calls,
                         footer)

\* The first for loop of create: the position of the first pair keyed
\* "location", or 0 when there is none (the loop's else clause).
FirstLocation(attrs) ==
    IF \E i \in DOMAIN attrs : IsLocationKey(attrs[i].key)
    THEN CHOOSE i \in DOMAIN attrs :
            /\ IsLocationKey(attrs[i].key)
            /\ \A j \in 1..(i - 1) : ~IsLocationKey(attrs[j].key)
    ELSE 0

\* create with the Create stream opened before the location is looked for:
\* the missing location is found out inside the stream's scope.
create_OpenFirst(object_type, attrs, module_id, ms, getFooter, footer) ==
    IF module_id # 0
    THEN create_under(object_type, attrs,
                      get("MODULE", module_id, StrRef("location"), FALSE, "", ms, getFooter),
                      footer)
    ELSE IF FirstLocation(attrs) = 0
    THEN CreateDone(TAIException(14, <<"mandatory-attribute-missing">>), <<>>,
                    <<"open:Create", "close:Create">>)
    ELSE create_exchange(ObjectTypeTag(object_type), attrs,
                         attrs[FirstLocation(attrs)].value, <<>>, footer)

\* AsyncClient.create: the location is the parent module's location attribute
\* when module_id is given, else the value of the first pair keyed
\* "location"; without either, TAIException(0xE) is raised.
create(object_type, attrs, module_id, ms, getFooter, footer) ==
    IF module_id # 0
    THEN create_under(object_type, attrs,
                      get("MODULE", module_id, StrRef("location"), FALSE, "", ms, getFooter),
                      footer)
    ELSE IF FirstLocation(attrs) = 0
    THEN CreateDone(TAIException(14, <<"mandatory-attribute-missing">>), <<>>, <<>>)
    ELSE create_exchange(ObjectTypeTag(object_type), attrs,
                         attrs[FirstLocation(attrs)].value, <<>>, footer)

\* monitor after the descriptor lookup m: a failed lookup and a usage other
\* than "<notification>" raise, releasing the Monitor stream; else the
\* MonitorRequest is sent.
MonitorChecked(m) ==
    IF IsException(m.ret)
    THEN MetaDone(m.ret, EmptyMeta, <<"open:Monitor">> \o m.calls \o <<"close:Monitor">>)
    ELSE IF m.metadata.usage # "<notification>"
    THEN MetaDone(PyException("Exception", <<"not notification">>), m.metadata,
                  <<"open:Monitor">> \o m.calls \o <<"close:Monitor">>)
    ELSE MetaDone(NoneVal, m.metadata, <<"open:Monitor">> \o m.calls \o <<"send:Monitor">>)

\* AsyncClient.monitor up to its while loop: the Monitor stream is opened,
\* then the descriptor is looked up and its usage checked, then the
\* MonitorRequest is sent. ret is NoneVal when the subscription was sent,
\* else the exception raised; metadata is the resolved descriptor.
monitor_start(object_type, oid, attr_id) ==
    MonitorChecked(get_attribute_metadata(object_type, attr_id, oid, ""))

\* ------------------------------------- set, capability, descriptor listing
\* AsyncClient.list_attribute_metadata: one call through the stub; the
\* descriptors of the answer are returned.
list_attribute_metadata(object_type, oid, location) ==
    GmDone(NoneVal,
           [k \in DOMAIN RemoteMetaList |->
               [value |-> "", paired |-> TRUE, meta |-> RemoteMetaList[k]]],
           <<>>, <<"unary:ListAttributeMetadata">>)

\* What set_multiple and get_attribute_capability did: ret is NoneVal or the
\* exception raised, req the attributes of the request sent.
SetDone(ret, req, calls) == [ret |-> ret, req |-> req, calls |-> calls]

\* The loop body of set_multiple with the metadata looked up for an int too.
SetStep_LookupInt(st, kv, lookup) ==
    CASE kv.key.t \in {"int", "str"} ->
           IF IsException(lookup.ret)
           THEN [st EXCEPT !.calls = st.calls \o lookup.calls, !.exc = lookup.ret]
           ELSE [st EXCEPT !.calls = st.calls \o lookup.calls,
                           !.req = Append(st.req, Attr(lookup.metadata.attr_id, kv.value))]
      [] OTHER -> [st EXCEPT !.req = Append(st.req, Attr(kv.key.attr_id, kv.value))]

\* One iteration of the for loop of set_multiple, on the pair kv; lookup is
\* what get_attribute_metadata does for its reference, used for a str only.
SetStep(st, kv, lookup) ==
    CASE kv.key.t = "int" -> [st EXCEPT !.req = Append(st.req, Attr(kv.key.attr_id, kv.value))]
      [] kv.key.t = "str" ->
           IF IsException(lookup.ret)
           THEN [st EXCEPT !.calls = st.calls \o lookup.calls, !.exc = lookup.ret]
           ELSE [st EXCEPT !.calls = st.calls \o lookup.calls,
                           !.req = Append(st.req, Attr(lookup.metadata.attr_id, kv.value))]
      [] OTHER -> [st EXCEPT !.req = Append(st.req, Attr(kv.key.attr_id, kv.value))]

\* The for loop of set_multiple from pair i on.
RECURSIVE SetLoop(_, _, _, _, _)
SetLoop(object_type, oid, attributes, i, st) ==
    IF i > Len(attributes) \/ IsException(st.exc) THEN st
    ELSE SetLoop(object_type, oid, attributes, i + 1,
                 SetStep(st, attributes[i],
                         get_attribute_metadata(object_type, attributes[i].key, oid, "")))

\* set_multiple after its for loop: the SetAttribute exchange, the footer check.
SetFinish(st, footer) ==
    IF IsException(st.exc)
    THEN SetDone(st.exc, <<>>, Append(st.calls, "close:SetAttribute"))
    ELSE SetDone(check_metadata(footer), st.req,
                 st.calls \o <<"send:SetAttribute", "recv:SetAttribute",
                                "trailers:SetAttribute", "close:SetAttribute">>)

\* AsyncClient.set_multiple
set_multiple(object_type, oid, attributes, footer) ==
    SetFinish(SetLoop(object_type, oid, attributes, 1,
                      [exc |-> NoneVal, req |-> <<>>, calls |-> <<"open:SetAttribute">>]),
              footer)

\* AsyncClient.set: set_multiple of the one pair.
set(object_type, oid, attr_id, value, footer) ==
    set_multiple(object_type, oid, <<KV(attr_id, value)>>, footer)

\* get_attribute_capability after the reference is resolved; lookup is what
\* get_attribute_metadata did for a str reference.
CapabilityResolved(attr, lookup, footer) ==
    IF attr.t = "str" /\ IsException(lookup.ret)
    THEN SetDone(lookup.ret, <<>>,
                 <<"open:GetAttributeCapability">> \o lookup.calls
                     \o <<"close:GetAttributeCapability">>)
    ELSE SetDone(check_metadata(footer),
                 <<Attr(IF attr.t = "str" THEN lookup.metadata.attr_id ELSE attr.attr_id, "")>>,
                 <<"open:GetAttributeCapability">>
                     \o (IF attr.t = "str" THEN lookup.calls ELSE <<>>)
                     \o <<"send:GetAttributeCapability", "recv:GetAttributeCapability",
                           "trailers:GetAttributeCapability", "close:GetAttributeCapability">>)

\* AsyncClient.get_attribute_capability: an int is the id, a str is looked up
\* (object type 0, scoped to the oid), a descriptor gives its attr_id.
get_attribute_capability(oid, attr, footer) ==
    CapabilityResolved(attr, get_attribute_metadata("", attr, oid, ""), footer)

\* --------------------------------------------------- the facade (Client)
VARIABLES
    modules,   \* the remote service's current module listing
    in_q,      \* Client.in_q: commands from the callers (and the sentinel None)
    out_q,     \* Client.out_q: replies from the worker
    cpc,       \* per caller thread: "ready", or "blocked" in out_q.get()
    mine,      \* per caller thread: the ticket of the request it issued last
    outcome,   \* per caller thread: what its last call returned or raised
    wpc,       \* the worker: "get" (in in_q.get()), "await" (running f), "done"
    cur,       \* the worker's local i: the command it dequeued last
    closepc,   \* close(): "open" (not called), "joining" (in t.join()), "closed"
    nsub,      \* history: number of commands enqueued so far (the tickets)
    sentAt,    \* history: number of commands enqueued before the sentinel
    replied,   \* history: ticket and raw result of each reply, in out_q.put order
    inflight,  \* history: tickets dequeued by the worker and not yet replied to
    last,      \* the call made on a directly used AsyncClient, and what it did
    mon,       \* the monitor task of that client: its position and callbacks
    netifs,    \* the remote's records of the children of the module at L1
    mobj       \* a Module object of that client, and its create_netif call

\* The state around a directly used AsyncClient.
mvars == <<netifs, mobj>>
avars == <<last, mon, mvars>>

\* The state of the facade.
fvars == <<in_q, out_q, cpc, mine, outcome, wpc, cur, closepc,
           nsub, sentAt, replied, inflight>>

vars == <<modules, fvars, avars>>

\* A command (fname, args, kwargs) as __getattr__ enqueues it; id and by are
\* history fields (the ticket, the calling thread); none marks the sentinel.
Cmd(fname, loc, oid, l, api) ==
    [none |-> FALSE, fname |-> fname, loc |-> loc, oid |-> oid, l |-> l, api |-> api,
     id |-> 0, by |-> ""]
NoneCmd == [Cmd("", "", 0, "", "") EXCEPT !.none = TRUE]

\* The calls the callers of the model make through the facade.
FacadeCalls ==
    {Cmd("list", "", 0, "", "")}
    \cup {Cmd("get_module", loc, 0, "", "") : loc \in Locations}
    \cup {Cmd("remove", "", 7, "", "")}
    \cup {Cmd("no_such_method", "", 0, "", "")}

\* The listings the remote holds while the facade is exercised.
FacadeListings ==
    {<<[location |-> "L1", present |-> TRUE, oid |-> 7],
       [location |-> "L2", present |-> FALSE, oid |-> 0]>>}

\* getattr(c, fname) followed by await f(*args, **kwargs), on the client c.
Invoke(self, i, ms, footer) ==
    CASE i.fname = "list" -> list(self, ms)
      [] i.fname = "get_module" -> get_module(self, ms, i.loc)
      [] i.fname = "remove" -> remove(i.oid, footer)
      [] i.fname = "set_log_level" -> set_log_level(i.l, i.api)
      [] OTHER -> Done(PyException("AttributeError", <<"no attribute", i.fname>>), <<>>)

\* The arguments of a call on the AsyncClient, each at its default.
NoIn ==
    [location |-> "", l |-> "", api |-> "unspecified", object_type |-> "", attrs |-> <<>>,
     module_id |-> 0, oid |-> 0, attr |-> IntRef(0), getFooter |-> OkFooter,
     footer |-> OkFooter, attributes |-> <<>>, with_metadata |-> FALSE, value |-> ""]

\* A call and what it did: the value returned or raised, the remote calls
\* issued, the attributes of the request sent, the descriptor resolved, and
\* the list returned (of get_multiple, get, list_attribute_metadata).
Last(op, in, ret, calls, req, metadata) ==
    [op |-> op, in |-> in, ret |-> ret, calls |-> calls, req |-> req,
     metadata |-> metadata, values |-> <<>>]
LastList(op, in, r) ==
    [Last(op, in, r.ret, r.calls, r.req, EmptyMeta) EXCEPT !.values = r.values]
NoLast == Last("none", NoIn, NoneVal, <<>>, <<>>, EmptyMeta)

\* A callback given to monitor: a function (def), a coroutine function
\* (async def) or an object whose __call__ is a coroutine function, wrapped
\* in partials functools.partial objects.
Callback(fn, partials) == [fn |-> fn, partials |-> partials]

\* is_async_func: a coroutine function, or a partial of what is_async_func
\* accepts.
RECURSIVE is_async_func(_)
is_async_func(func) ==
    IF func.fn = "async def" /\ func.partials = 0 THEN TRUE
    ELSE IF func.partials > 0 THEN is_async_func(Callback(func.fn, func.partials - 1))
    ELSE FALSE

\* No monitor task; pc becomes "streaming" once the subscription is sent and
\* is "callback" while an awaited callback runs. got counts the messages
\* received, invoked lists the callback's calls, completed counts the calls
\* whose body has run to its end.
NoMon ==
    [pc |-> "idle", got |-> 0, callback |-> Callback("def", 0), invoked |-> <<>>,
     completed |-> 0]

\* A Module object before create_netif or create_hostif is called on it: obj
\* is the child list of its cached record, child the object returned.
NoMobj ==
    [pc |-> "idle", kind |-> "", index |-> 0, obj |-> <<>>, ret |-> NoneVal,
     child |-> [index |-> 0, oid |-> 0], calls |-> <<>>, changed |-> FALSE]

NoOutcome == [done |-> FALSE, raised |-> FALSE, val |-> NoneVal, id |-> 0]

Init ==
    /\ modules \in FacadeListings
    /\ in_q = <<>>
    /\ out_q = <<>>
    /\ cpc = [t \in Callers |-> "ready"]
    /\ mine = [t \in Callers |-> 0]
    /\ outcome = [t \in Callers |-> NoOutcome]
    /\ wpc = "get"
    /\ cur = NoneCmd
    /\ closepc = "open"
    /\ nsub = 0
    /\ sentAt = 0
    /\ replied = <<>>
    /\ inflight = {}
    /\ last = NoLast
    /\ mon = NoMon
    /\ netifs = <<>>
    /\ mobj = NoMobj

\* Client.__getattr__.f, first half: in_q.put((name, args, kwargs)).
Call(t, c) ==
    /\ cpc[t] = "ready"
    /\ nsub < MaxReq
    /\ in_q' = Append(in_q, [c EXCEPT !.id = nsub + 1, !.by = t])
    /\ nsub' = nsub + 1
    /\ mine' = [mine EXCEPT ![t] = nsub + 1]
    /\ outcome' = [outcome EXCEPT ![t] = NoOutcome]
    /\ cpc' = [cpc EXCEPT ![t] = "blocked"]
    /\ UNCHANGED <<avars, modules, out_q, wpc, cur, closepc, sentAt, replied, inflight>>

\* Client.__getattr__.f, second half: ret = out_q.get(); raise or return it.
Receive(t) ==
    /\ cpc[t] = "blocked"
    /\ out_q # <<>>
    /\ LET ret == Head(out_q)
       IN outcome' = [outcome EXCEPT ![t] =
              [done |-> TRUE, raised |-> IsException(ret.val), val |-> ret.val,
               id |-> ret.id]]
    /\ out_q' = Tail(out_q)
    /\ cpc' = [cpc EXCEPT ![t] = "ready"]
    /\ UNCHANGED <<avars, modules, in_q, mine, wpc, cur, closepc, nsub, sentAt, replied, inflight>>

\* WorkerGet with in_q a LIFO: the newest command is taken first.
WorkerGet_Lifo ==
    /\ wpc = "get"
    /\ in_q # <<>>
    /\ LET i == in_q[Len(in_q)]
       IN /\ in_q' = SubSeq(in_q, 1, Len(in_q) - 1)
          /\ IF i.none
             THEN wpc' = "done" /\ UNCHANGED <<cur, inflight>>
             ELSE wpc' = "await" /\ cur' = i /\ inflight' = inflight \cup {i.id}
    /\ UNCHANGED <<avars, modules, out_q, cpc, mine, outcome, closepc, nsub, sentAt, replied>>

\* WorkerGet when f is started as a task and not awaited: the next command is
\* dequeued while the previous one is still running.
WorkerGet_NoWait ==
    /\ wpc \in {"get", "await"}
    /\ in_q # <<>>
    /\ LET i == Head(in_q)
       IN /\ in_q' = Tail(in_q)
          /\ IF i.none
             THEN wpc' = "done" /\ UNCHANGED <<cur, inflight>>
             ELSE wpc' = "await" /\ cur' = i /\ inflight' = inflight \cup {i.id}
    /\ UNCHANGED <<avars, modules, out_q, cpc, mine, outcome, closepc, nsub, sentAt, replied>>

\* Client.loop, i = in_q.get(): return on the sentinel, else dispatch.
WorkerGet ==
    /\ wpc = "get"
    /\ in_q # <<>>
    /\ LET i == Head(in_q)
       IN /\ in_q' = Tail(in_q)
          /\ IF i.none
             THEN wpc' = "done" /\ UNCHANGED <<cur, inflight>>
             ELSE wpc' = "await" /\ cur' = i /\ inflight' = inflight \cup {i.id}
    /\ UNCHANGED <<avars, modules, out_q, cpc, mine, outcome, closepc, nsub, sentAt, replied>>

\* WorkerRun without the try/except: an Exception raised by f ends the worker
\* thread and no reply is put.
WorkerRun_NoExcept ==
    /\ wpc = "await"
    /\ \E footer \in Footers :
         LET raw == Invoke("internal", cur, modules, footer).ret
             ret == IF IsTAIObject(raw) THEN [raw EXCEPT !.client = "facade"] ELSE raw
         IN IF IsException(raw)
            THEN wpc' = "done" /\ UNCHANGED <<out_q, replied, inflight>>
            ELSE /\ out_q' = Append(out_q, [val |-> ret, id |-> cur.id])
                 /\ replied' = Append(replied, [id |-> cur.id, val |-> raw])
                 /\ inflight' = inflight \ {cur.id}
                 /\ wpc' = "get"
    /\ UNCHANGED <<avars, modules, in_q, cpc, mine, outcome, cur, closepc, nsub, sentAt>>

\* Client.loop, the rest of one iteration: run f, keep what it returned or
\* the Exception it raised, rebind a TAIObject's client, out_q.put(ret).
WorkerRun ==
    /\ wpc = "await"
    /\ \E footer \in Footers :
         LET raw == Invoke("internal", cur, modules, footer).ret
             ret == IF IsTAIObject(raw) THEN [raw EXCEPT !.client = "facade"] ELSE raw
         IN /\ out_q' = Append(out_q, [val |-> ret, id |-> cur.id])
            /\ replied' = Append(replied, [id |-> cur.id, val |-> raw])
    /\ inflight' = inflight \ {cur.id}
    /\ wpc' = "get"
    /\ UNCHANGED <<avars, modules, in_q, cpc, mine, outcome, cur, closepc, nsub, sentAt>>

\* Client.close, first statement: in_q.put(None).
Close ==
    /\ closepc = "open"
    /\ in_q' = Append(in_q, NoneCmd)
    /\ sentAt' = nsub
    /\ closepc' = "joining"
    /\ UNCHANGED <<avars, modules, out_q, cpc, mine, outcome, wpc, cur, nsub, replied, inflight>>

\* Client.close, second statement: t.join() returns once the worker ended.
CloseJoin ==
    /\ closepc = "joining"
    /\ wpc = "done"
    /\ closepc' = "closed"
    /\ UNCHANGED <<avars, modules, in_q, out_q, cpc, mine, outcome, wpc, cur, nsub, sentAt,
                   replied, inflight>>

Next ==
    \/ \E t \in Callers, c \in FacadeCalls : Call(t, c)
    \/ \E t \in Callers : Receive(t)
    \/ WorkerGet
    \/ WorkerRun
    \/ Close
    \/ CloseJoin

Spec == Init /\ [][Next]_vars

\* The worker thread runs whenever it can, every remote call ends, and a thread
\* in join() is resumed once the joined thread has ended.
FairSpec == Spec /\ WF_vars(WorkerGet) /\ WF_vars(WorkerRun) /\ WF_vars(CloseJoin)

\* ------------------------------------------- a directly used AsyncClient
\* The (key, value) pairs given to create, and the attrs lists made of them.
CreateKVs ==
    {KV(StrRef("location"), "L1"), KV(StrRef("index"), "0"), KV(IntRef(1), "L1"),
     KV(MetaRef(Meta(2, "index", "<int>")), "0"), KV(StrRef("no-such-attr"), "x")}
CreateAttrs == SeqsUpTo(CreateKVs, MaxAttrs)

\* The attribute references given to monitor.
MonitorRefs ==
    {StrRef("notify"), StrRef("tx-dis"), StrRef("no-such-attr"), IntRef(3), IntRef(4),
     MetaRef(Meta(3, "notify", "<notification>"))}

\* await client.create(object_type, attrs, module_id)
DoCreate(object_type, attrs, module_id, getFooter, footer) ==
    /\ last.op = "none"
    /\ LET r == create(object_type, attrs, module_id, modules, getFooter, footer)
       IN last' = Last("create",
                       [NoIn EXCEPT !.object_type = object_type, !.attrs = attrs,
                                    !.module_id = module_id, !.getFooter = getFooter,
                                    !.footer = footer],
                       r.ret, r.calls, r.req, EmptyMeta)
    /\ UNCHANGED <<modules, fvars, mon, mvars>>

\* await client.set_log_level(l, api)
DoSetLogLevel(l, api) ==
    /\ last.op = "none"
    /\ LET r == set_log_level(l, api)
       IN last' = Last("set_log_level", [NoIn EXCEPT !.l = l, !.api = api],
                       r.ret, r.calls, <<>>, EmptyMeta)
    /\ UNCHANGED <<modules, fvars, mon, mvars>>

\* The task of client.monitor(obj, attr_id, callback) for the module obj of
\* id 7, run up to the while loop.
DoMonitor(attr, callback) ==
    /\ last.op = "none"
    /\ LET r == monitor_start("MODULE", 7, attr)
       IN /\ last' = Last("monitor", [NoIn EXCEPT !.oid = 7, !.attr = attr],
                          r.ret, r.calls, <<>>, r.metadata)
          /\ mon' = [NoMon EXCEPT !.pc = IF IsException(r.ret) THEN "failed" ELSE "streaming",
                                  !.callback = callback]
    /\ UNCHANGED <<modules, fvars, mvars>>

\* The call callback(obj, m, message) of the while loop, for message k.
Invocation(k) == [message |-> k, obj |-> last.in.oid, m |-> last.metadata]

\* One round of the while loop with an asynchronous callback started as a
\* task of its own instead of being awaited.
MonitorRecv_NoAwait ==
    /\ mon.pc = "streaming"
    /\ mon.got < MaxMsgs
    /\ mon' = [mon EXCEPT !.got = mon.got + 1,
                          !.invoked = Append(mon.invoked, Invocation(mon.got + 1)),
                          !.completed = IF mon.callback.fn = "def" THEN mon.completed + 1
                                        ELSE mon.completed]
    /\ last' = [last EXCEPT !.calls = Append(last.calls, "recv:Monitor")]
    /\ UNCHANGED <<modules, fvars, mvars>>

\* One round of monitor's while loop: the next message is received and the
\* callback is called with it. A callback is_async_func accepts is awaited
\* (the loop waits in "callback"); a function runs to its end within the
\* call; a call of any other callable returns a coroutine that is not
\* awaited, so its body does not run.
MonitorRecv ==
    /\ mon.pc = "streaming"
    /\ mon.got < MaxMsgs
    /\ mon' = [mon EXCEPT !.got = mon.got + 1,
                          !.invoked = Append(mon.invoked, Invocation(mon.got + 1)),
                          !.pc = IF is_async_func(mon.callback) THEN "callback"
                                 ELSE "streaming",
                          !.completed = IF ~is_async_func(mon.callback)
                                           /\ mon.callback.fn = "def"
                                        THEN mon.completed + 1 ELSE mon.completed]
    /\ last' = [last EXCEPT !.calls = Append(last.calls, "recv:Monitor")]
    /\ UNCHANGED <<modules, fvars, mvars>>

\* The awaited callback returns: the loop goes on to its next round.
MonitorCallbackDone ==
    /\ mon.pc = "callback"
    /\ mon' = [mon EXCEPT !.pc = "streaming", !.completed = mon.completed + 1]
    /\ UNCHANGED <<modules, fvars, last, mvars>>

\* The callbacks given to monitor.
Callbacks ==
    {Callback(fn, partials) : fn \in {"def", "async def", "async __call__"},
                              partials \in {0, 1, 2}}

\* The references of the batches given to set_multiple and get_multiple: by
\* id, by name, resolved, and a name the remote does not know.
BatchRefs ==
    {IntRef(1), IntRef(2), StrRef("location"), StrRef("index"),
     MetaRef(Meta(4, "tx-dis", "<bool>")), StrRef("no-such-attr")}

\* The attributes lists given to set_multiple, and to get_multiple: there an
\* entry is a bare reference or the tuple of a reference and a value hint.
SetBatches == SeqsUpTo({KV(ref, "v") : ref \in BatchRefs}, MaxAttrs)
GetBatches ==
    SeqsUpTo({Entry(FALSE, ref, "") : ref \in BatchRefs}
                 \cup {Entry(TRUE, ref, "hint") : ref \in BatchRefs}, MaxAttrs)

\* await client.list(); footer is the status the remote sends with its answer.
DoList(footer) ==
    /\ last.op = "none"
    /\ LET r == list("direct", modules)
       IN last' = Last("list", [NoIn EXCEPT !.footer = footer], r.ret, r.calls, <<>>,
                       EmptyMeta)
    /\ UNCHANGED <<modules, fvars, mon, mvars>>

\* await client.list_attribute_metadata(MODULE, 7)
DoListAttributeMetadata(footer) ==
    /\ last.op = "none"
    /\ last' = LastList("list_attribute_metadata",
                        [NoIn EXCEPT !.object_type = "MODULE", !.oid = 7, !.footer = footer],
                        list_attribute_metadata("MODULE", 7, ""))
    /\ UNCHANGED <<modules, fvars, mon, mvars>>

\* await client.get_attribute_capability(7, attr)
DoGetAttributeCapability(attr, footer) ==
    /\ last.op = "none"
    /\ LET r == get_attribute_capability(7, attr, footer)
       IN last' = Last("get_attribute_capability",
                       [NoIn EXCEPT !.oid = 7, !.attr = attr, !.footer = footer],
                       r.ret, r.calls, r.req, EmptyMeta)
    /\ UNCHANGED <<modules, fvars, mon, mvars>>

\* await client.get_attribute_metadata(MODULE, attr, oid=7); the footer is
\* the remote's, for the reference sent.
DoGetAttributeMetadata(attr) ==
    /\ last.op = "none"
    /\ LET r == get_attribute_metadata("MODULE", attr, 7, "")
       IN last' = Last("get_attribute_metadata",
                       [NoIn EXCEPT !.object_type = "MODULE", !.oid = 7, !.attr = attr,
                                    !.footer = RemoteMetadata(attr.t = "int", attr.attr_id,
                                                              attr.name).footer],
                       r.ret, r.calls, <<>>, r.metadata)
    /\ UNCHANGED <<modules, fvars, mon, mvars>>

\* await client.remove(7)
DoRemove(footer) ==
    /\ last.op = "none"
    /\ LET r == remove(7, footer)
       IN last' = Last("remove", [NoIn EXCEPT !.oid = 7, !.footer = footer],
                       r.ret, r.calls, <<>>, EmptyMeta)
    /\ UNCHANGED <<modules, fvars, mon, mvars>>

\* await client.set_multiple(MODULE, 7, attributes)
DoSetMultiple(attributes, footer) ==
    /\ last.op = "none"
    /\ LET r == set_multiple("MODULE", 7, attributes, footer)
       IN last' = Last("set_multiple",
                       [NoIn EXCEPT !.object_type = "MODULE", !.oid = 7,
                                    !.attrs = attributes, !.footer = footer],
                       r.ret, r.calls, r.req, EmptyMeta)
    /\ UNCHANGED <<modules, fvars, mon, mvars>>

\* await client.set(MODULE, 7, attr_id, "v")
DoSet(attr_id, footer) ==
    /\ last.op = "none"
    /\ LET r == set("MODULE", 7, attr_id, "v", footer)
       IN last' = Last("set",
                       [NoIn EXCEPT !.object_type = "MODULE", !.oid = 7, !.attr = attr_id,
                                    !.value = "v", !.footer = footer],
                       r.ret, r.calls, r.req, EmptyMeta)
    /\ UNCHANGED <<modules, fvars, mon, mvars>>

\* await client.get_multiple(MODULE, 7, attributes, with_metadata)
DoGetMultiple(attributes, with_metadata, footer) ==
    /\ last.op = "none"
    /\ last' = LastList("get_multiple",
                        [NoIn EXCEPT !.object_type = "MODULE", !.oid = 7,
                                     !.attributes = attributes,
                                     !.with_metadata = with_metadata, !.footer = footer],
                        get_multiple("MODULE", 7, attributes, with_metadata, modules, footer))
    /\ UNCHANGED <<modules, fvars, mon, mvars>>

\* await client.get(MODULE, 7, attr, with_metadata, value)
DoGet(attr, with_metadata, value, footer) ==
    /\ last.op = "none"
    /\ last' = LastList("get",
                        [NoIn EXCEPT !.object_type = "MODULE", !.oid = 7, !.attr = attr,
                                     !.with_metadata = with_metadata, !.value = value,
                                     !.footer = footer],
                        get("MODULE", 7, attr, with_metadata, value, modules, footer))
    /\ UNCHANGED <<modules, fvars, mon, mvars>>

NextAsync ==
    \/ \E object_type \in {"module", "NETIF", "no-such-type"}, attrs \in CreateAttrs,
          module_id \in ModuleOids, getFooter \in Footers, footer \in Footers :
          DoCreate(object_type, attrs, module_id, getFooter, footer)
    \/ \E l \in LogLevels \cup {"bogus", "DEBUG"}, api \in ApiScopes \cup {"bogus", ""} :
          DoSetLogLevel(l, api)
    \/ \E attr \in MonitorRefs, callback \in Callbacks : DoMonitor(attr, callback)
    \/ MonitorRecv
    \/ MonitorCallbackDone
    \/ \E footer \in Footers : DoList(footer)
    \/ \E footer \in Footers : DoListAttributeMetadata(footer)
    \/ \E attr \in BatchRefs, footer \in Footers : DoGetAttributeCapability(attr, footer)
    \/ \E attr \in BatchRefs : DoGetAttributeMetadata(attr)
    \/ \E footer \in Footers : DoRemove(footer)
    \/ \E attributes \in SetBatches, footer \in Footers : DoSetMultiple(attributes, footer)
    \/ \E attr_id \in BatchRefs, footer \in Footers : DoSet(attr_id, footer)
    \/ \E attributes \in GetBatches, with_metadata \in BOOLEAN, footer \in Footers :
          DoGetMultiple(attributes, with_metadata, footer)
    \/ \E attr \in BatchRefs, with_metadata \in BOOLEAN, value \in {"", "hint"},
          footer \in Footers : DoGet(attr, with_metadata, value, footer)

SpecAsync == Init /\ [][NextAsync]_vars

\* -------------------------------------------------- the module listing
\* The facade and the client not yet used, the remote holding any listing.
InitListing ==
    /\ modules \in Listings
    /\ in_q = <<>>
    /\ out_q = <<>>
    /\ cpc = [t \in Callers |-> "ready"]
    /\ mine = [t \in Callers |-> 0]
    /\ outcome = [t \in Callers |-> NoOutcome]
    /\ wpc = "get"
    /\ cur = NoneCmd
    /\ closepc = "open"
    /\ nsub = 0
    /\ sentAt = 0
    /\ replied = <<>>
    /\ inflight = {}
    /\ last = NoLast
    /\ mon = NoMon
    /\ netifs = <<>>
    /\ mobj = NoMobj

\* await client.get_module(location)
DoGetModule(location) ==
    /\ last.op = "none"
    /\ LET r == get_module("direct", modules, location)
       IN last' = Last("get_module", [NoIn EXCEPT !.location = location],
                       r.ret, r.calls, <<>>, EmptyMeta)
    /\ UNCHANGED <<modules, fvars, mon, mvars>>

NextListing == \E location \in Locations : DoGetModule(location)

SpecListing == InitListing /\ [][NextListing]_vars

\* ------------------------------------- Module.create_netif, create_hostif
\* One entry of a module record's netifs or hostifs list.
ChildRec(index, oid) == [index |-> index, oid |-> oid]

\* The children the module at L1 may hold before the call, the indexes asked
\* for, and the attrs given (None, or one pair).
InitialIfs == {<<>>, <<ChildRec(0, 21)>>}
IfIndexes == {0, 1}
IfAttrs == {<<>>, <<KV(StrRef("tx-dis"), "true")>>, <<KV(StrRef("no-such-attr"), "x")>>}

\* The client not yet used, and a Module object for the module at L1 (id 7)
\* whose cached record is the remote's.
InitModule ==
    /\ modules \in FacadeListings
    /\ in_q = <<>>
    /\ out_q = <<>>
    /\ cpc = [t \in Callers |-> "ready"]
    /\ mine = [t \in Callers |-> 0]
    /\ outcome = [t \in Callers |-> NoOutcome]
    /\ wpc = "get"
    /\ cur = NoneCmd
    /\ closepc = "open"
    /\ nsub = 0
    /\ sentAt = 0
    /\ replied = <<>>
    /\ inflight = {}
    /\ last = NoLast
    /\ mon = NoMon
    /\ netifs \in InitialIfs
    /\ mobj = [NoMobj EXCEPT !.obj = netifs]

\* create_netif and create_hostif up to the answer of create: ("index", index)
\* is appended to attrs and create is awaited with the module's id as parent.
\* When create succeeds the remote holds the new child, with the id returned.
CreateIf(kind, index, attrs, getFooter, footer) ==
    /\ mobj.pc = "idle"
    /\ LET r == create(kind, Append(attrs, KV(StrRef("index"), ToString(index))), 7,
                       modules, getFooter, footer)
       IN /\ mobj' = [mobj EXCEPT !.pc = IF IsException(r.ret) THEN "raised" ELSE "created",
                                  !.kind = kind, !.index = index, !.ret = r.ret,
                                  !.calls = r.calls]
          /\ netifs' = IF IsException(r.ret) THEN netifs
                       ELSE Append(netifs, ChildRec(index, r.ret.code))
    /\ UNCHANGED <<modules, fvars, last, mon>>

\* The remote's record changes while the caller is between its two awaits: a
\* child gets another index, or the children are listed in another order.
RemoteChange ==
    /\ mobj.pc = "created"
    /\ ~mobj.changed
    /\ \/ \E k \in DOMAIN netifs, index \in IfIndexes \cup {2} :
             /\ netifs[k].index # index
             /\ netifs' = [netifs EXCEPT ![k].index = index]
       \/ /\ Len(netifs) = 2
          /\ netifs' = <<netifs[2], netifs[1]>>
    /\ mobj' = [mobj EXCEPT !.changed = TRUE]
    /\ UNCHANGED <<modules, fvars, last, mon>>

\* The rest of create_netif without the listing call: the child is built
\* from the index asked for and the id create returned, the cached record
\* is kept.
RefetchIf_NoList ==
    /\ mobj.pc = "created"
    /\ mobj' = [mobj EXCEPT !.pc = "returned",
                            !.child = ChildRec(mobj.index, mobj.ret.code)]
    /\ UNCHANGED <<modules, netifs, fvars, last, mon>>

\* The rest of create_netif: self.obj = (await self.client.list())[self.location],
\* then return self.get_netif(index), the child at position index of the
\* refreshed record.
RefetchIf ==
    /\ mobj.pc = "created"
    /\ LET l == list("direct", modules)
           looked == [mobj EXCEPT !.calls = mobj.calls \o l.calls]
       IN mobj' =
            IF "L1" \notin DOMAIN l.ret.items
            THEN [looked EXCEPT !.pc = "raised", !.ret = PyException("KeyError", <<"L1">>)]
            ELSE IF mobj.index + 1 \notin DOMAIN netifs
            THEN [looked EXCEPT !.pc = "raised", !.obj = netifs,
                                !.ret = PyException("IndexError", <<"netifs">>)]
            ELSE [looked EXCEPT !.pc = "returned", !.obj = netifs,
                                !.child = netifs[mobj.index + 1]]
    /\ UNCHANGED <<modules, netifs, fvars, last, mon>>

NextModule ==
    \/ \E kind \in {"NETIF", "HOSTIF"}, index \in IfIndexes, attrs \in IfAttrs,
          getFooter \in Footers, footer \in Footers :
          CreateIf(kind, index, attrs, getFooter, footer)
    \/ RemoteChange
    \/ RefetchIf

SpecModule == InitModule /\ [][NextModule]_vars

\* ------------------------------------------------------ facade properties
\* The reply recorded for ticket k, if the worker has produced one.
HasReply(k) == \E n \in DOMAIN replied : replied[n].id = k
ReplyOf(k) == replied[CHOOSE n \in DOMAIN replied : replied[n].id = k].val

\* C1: a caller whose call has ended got the reply the worker produced for
\* its own request, whatever the interleaving of the callers' puts and gets.
C1_OwnReply ==
    \A t \in Callers : outcome[t].done => outcome[t].id = mine[t]

\* C2: the worker puts one reply per request on out_q, in the order the
\* requests were put on in_q (tickets count the puts): the k-th reply is the
\* reply to the k-th request, what is still on out_q is the tail of that
\* sequence, and once the worker has ended every request put before the
\* sentinel has exactly one reply.
C2_RepliesInOrder ==
    /\ \A k \in DOMAIN replied : replied[k].id = k
    /\ Len(out_q) <= Len(replied)
    /\ \A k \in DOMAIN out_q : out_q[k].id = Len(replied) - Len(out_q) + k
    /\ wpc = "done" => Len(replied) = sentAt

\* C2 witness: the worker has ended after replying to requests of both callers.
C2_Witness ==
    /\ wpc = "done"
    /\ Len(replied) >= 2
    /\ nsub = sentAt
    /\ \A t \in Callers : mine[t] # 0

\* C3: a caller whose request raised E in the worker observes E raised, with
\* the same kind and fields, and never a normal return.
C3_ErrorFidelity ==
    \A t \in Callers :
        (outcome[t].done /\ HasReply(mine[t]) /\ IsException(ReplyOf(mine[t])))
            => (outcome[t].raised /\ outcome[t].val = ReplyOf(mine[t]))

\* C5: at most one request is dispatched and not yet replied to.
C5_OneInFlight == Cardinality(inflight) <= 1

\* C5 witness: one request is in flight while another caller's waits in in_q.
C5_Witness ==
    /\ Cardinality(inflight) = 1
    /\ wpc = "await"
    /\ \E k \in DOMAIN in_q : ~in_q[k].none /\ in_q[k].by # cur.by

\* The owners of the objects held in a value: the value itself when it is a
\* TAIObject, and the values of a dict.
Owners(v) ==
    (IF IsTAIObject(v) THEN {v.client} ELSE {})
        \cup {v.items[l].client : l \in DOMAIN v.items}

\* C6: every object a facade caller obtains, directly or inside the dict
\* returned by list, is owned by the facade.
C6_OwnedByFacade ==
    \A t \in Callers : outcome[t].done => Owners(outcome[t].val) \subseteq {"facade"}

\* C4: once close() has put the sentinel, the worker ends and close() returns;
\* and when the worker has ended every request put before the sentinel has
\* been replied to.
C4_Shutdown ==
    /\ (closepc = "joining") ~> (closepc = "closed" /\ wpc = "done")
    /\ [](wpc = "done" =>
            /\ inflight = {}
            /\ \A k \in 1..sentAt : HasReply(k))

\* C4 witness: close() has returned after requests of both callers were
\* pending when it was called.
C4_Witness ==
    /\ closepc = "closed"
    /\ sentAt >= 2
    /\ \A k \in 1..sentAt : HasReply(k)
    /\ \E j, k \in DOMAIN replied : IsException(replied[j].val) /\ ~IsException(replied[k].val)

\* ------------------------------------------------- AsyncClient properties
\* The descriptors of the metadata service that an int or str reference names.
Named(ref) ==
    {d \in MetaDB : \/ ref.t = "int" /\ d.attr_id = ref.attr_id
                    \/ ref.t = "str" /\ d.name = ref.name}

\* C7: monitor on an attribute whose descriptor's usage is not notification
\* fails, and has opened no Monitor stream when it fails.
C7_FailsBeforeStream ==
    (/\ last.op = "monitor"
     /\ \E d \in Named(last.in.attr) : d.usage # "<notification>")
        => /\ IsException(last.ret)
           /\ \A k \in DOMAIN last.calls : last.calls[k] # "open:Monitor"

\* C8: create with module_id 0 and no pair keyed "location" raises
\* TAIException(0xE, "mandatory-attribute-missing") and has issued no remote
\* call and opened no stream.
C8_CreateNeedsLocation ==
    (/\ last.op = "create"
     /\ last.in.module_id = 0
     /\ \A i \in DOMAIN last.in.attrs :
           ~(last.in.attrs[i].key.t = "str" /\ last.in.attrs[i].key.name = "location"))
        => /\ last.ret.kind = "TAIException"
           /\ last.ret.code = 14
           /\ last.ret.msg = <<"mandatory-attribute-missing">>
           /\ last.calls = <<>>

\* C8 witness: such a create, given two pairs (the location only by its
\* numeric id), has failed.
C8_Witness ==
    /\ last.op = "create"
    /\ last.in.module_id = 0
    /\ Len(last.in.attrs) = 2
    /\ \A i \in DOMAIN last.in.attrs : last.in.attrs[i].key.name # "location"
    /\ \E i \in DOMAIN last.in.attrs : last.in.attrs[i].key = IntRef(1)
    /\ last.ret.code = 14

\* C9: set_log_level with an unknown level, or a known level and an unknown
\* API scope, raises and issues no remote call; with both names known it
\* issues exactly the SetLogLevel call.
C9_LogLevelValidated ==
    last.op = "set_log_level" =>
        LET known == /\ last.in.l \in {"debug", "info", "notice", "warn", "error", "critical"}
                     /\ last.in.api \in {"module", "netif", "hostif", "unspecified"}
        IN IF known
           THEN ~IsException(last.ret) /\ last.calls = <<"unary:SetLogLevel">>
           ELSE IsException(last.ret) /\ last.calls = <<>>

\* C9 witness: a known level with an unknown scope has been refused.
C9_Witness ==
    /\ last.op = "set_log_level"
    /\ last.in.l = "debug"
    /\ last.in.api = "bogus"
    /\ IsException(last.ret)

\* The records of the listing at the location asked for.
AtLocation == {i \in DOMAIN modules : modules[i].location = last.in.location}
FirstAt == modules[CHOOSE i \in AtLocation : \A j \in AtLocation : i <= j]

\* C10: get_module is decided by the first record at the location: none, no
\* module found; not present, module not present (whatever its id); present
\* with id 0, not created yet; else the Module of that record, present and
\* with a nonzero id. The three failures differ from one another.
C10_GetModuleOutcome ==
    last.op = "get_module" =>
        LET loc == last.in.location
            notFound == TAIException(-1, <<"no module", loc, "found">>)
            notPresent == TAIException(-1, <<"module", loc, "not present">>)
            notCreated == TAIException(-1, <<"module", loc, "not created yet">>)
        IN /\ Cardinality({notFound, notPresent, notCreated}) = 3
           /\ IF AtLocation = {} THEN last.ret = notFound
              ELSE IF ~FirstAt.present THEN last.ret = notPresent
              ELSE IF FirstAt.oid = 0 THEN last.ret = notCreated
              ELSE /\ last.ret = Module("direct", FirstAt)
                   /\ last.ret.obj.present
                   /\ last.ret.obj.oid # 0

\* C10 witness: the first record at the location is absent with id 0 and a
\* later one is present and created; get_module reported "not present".
C10_Witness ==
    /\ last.op = "get_module"
    /\ Len(modules) = 2
    /\ modules[1] = [location |-> last.in.location, present |-> FALSE, oid |-> 0]
    /\ modules[2] = [location |-> last.in.location, present |-> TRUE, oid |-> 7]
    /\ last.ret.msg = <<"module", last.in.location, "not present">>

\* The remote call whose status footer decides an operation's outcome.
MainExchange(op) ==
    CASE op = "list" -> "unary:ListModule"
      [] op = "list_attribute_metadata" -> "unary:ListAttributeMetadata"
      [] op = "get_attribute_capability" -> "trailers:GetAttributeCapability"
      [] op = "get_attribute_metadata" -> "trailers:GetAttributeMetadata"
      [] op = "create" -> "trailers:Create"
      [] op = "remove" -> "trailers:Remove"
      [] op \in {"set", "set_multiple"} -> "trailers:SetAttribute"
      [] op \in {"get", "get_multiple"} -> "trailers:GetAttribute"
      [] op = "set_log_level" -> "unary:SetLogLevel"
      [] OTHER -> "none"

\* The remote calls of the trace calls, as a set.
Issued(calls) == {calls[k] : k \in DOMAIN calls}

\* C11: every remote operation (list modules, list attribute descriptors, get
\* capability, get descriptor, create, remove, set, get, set log level) whose
\* exchange came back with a nonzero status footer fails with the
\* protocol-status error carrying that footer's code and message, and returns
\* no payload.
C11_FooterChecked ==
    (/\ MainExchange(last.op) \in Issued(last.calls)
     /\ last.in.footer.code # 0)
        => /\ last.ret = TAIException(last.in.footer.code, last.in.footer.msg)
           /\ last.values = <<>>

\* The streams the operations open, and the events of opening and of
\* releasing one.
OpenEvents ==
    {"open:GetAttributeCapability", "open:GetAttributeMetadata", "open:Create",
     "open:Remove", "open:SetAttribute", "open:GetAttribute", "open:Monitor"}
CloseEvents ==
    {"close:GetAttributeCapability", "close:GetAttributeMetadata", "close:Create",
     "close:Remove", "close:SetAttribute", "close:GetAttribute", "close:Monitor"}

\* The number of streams open after the remote calls of the trace calls.
OpenStreams(calls) ==
    Cardinality({k \in DOMAIN calls : calls[k] \in OpenEvents})
        - Cardinality({k \in DOMAIN calls : calls[k] \in CloseEvents})

\* The operations built on "async with stub.X.open()" that return.
StreamOps ==
    {"get_attribute_capability", "get_attribute_metadata", "create", "remove",
     "set", "set_multiple", "get", "get_multiple"}

\* C12: when get capability, get descriptor, create, remove, set_multiple or
\* get_multiple has returned or raised, every stream it opened, those of
\* nested metadata lookups included, has been released: no stream is open.
C12_StreamsReleased ==
    last.op \in StreamOps => OpenStreams(last.calls) = 0

\* A create that raised inside the Create stream's scope, on a failed nested
\* lookup, after an earlier lookup had succeeded.
C12_Witness ==
    /\ last.op = "create"
    /\ IsException(last.ret)
    /\ Cardinality({k \in DOMAIN last.calls : last.calls[k] \in OpenEvents}) >= 3
    /\ "send:Create" \notin Issued(last.calls)

\* The descriptor of the attribute an entry of a batch refers to: the one
\* given, or the one the remote holds for the id or name.
DescriptorOf(ref) ==
    IF ref.t = "meta" THEN AsMeta(ref)
    ELSE RemoteMetadata(ref.t = "int", ref.attr_id, ref.name).metadata

\* C13: get_multiple with metadata requested, on a batch of two or more
\* attributes, returns at position i the i-th attribute's value paired with
\* that same attribute's descriptor, never with the descriptor of another
\* attribute of the batch.
C13_PairedWithOwnDescriptor ==
    (/\ last.op = "get_multiple"
     /\ last.in.with_metadata
     /\ Len(last.in.attributes) >= 2
     /\ ~IsException(last.ret))
        => /\ Len(last.values) = Len(last.in.attributes)
           /\ \A i \in DOMAIN last.values :
                 /\ last.values[i].paired
                 /\ last.values[i].meta = DescriptorOf(last.in.attributes[i].ref)
                 /\ last.values[i].value
                        = RemoteValue(modules, last.in.oid,
                                      DescriptorOf(last.in.attributes[i].ref).attr_id)

\* A name the remote metadata maps to an id, and the reference by that id.
KnownName(ref) == ref.t = "str" /\ \E d \in MetaDB : d.name = ref.name
ById(ref) == IF KnownName(ref) THEN IntRef(DescriptorOf(ref).attr_id) ELSE ref

\* The attrs list of create with every known name replaced by its id.
AttrsById(attrs) == [i \in DOMAIN attrs |-> KV(ById(attrs[i].key), attrs[i].value)]

\* Two outcomes with the same request sent and the same result.
SameOutcome(r, l) == r.ret = l.ret /\ r.req = l.req

\* C14: for a name n the remote metadata maps to id k, each of set, get and
\* create issued with the name n sends the same attribute id and value to the
\* remote as the same call issued with the numeric id k, and yields the same
\* result.
C14_NameEqualsId ==
    /\ (last.op = "set" /\ KnownName(last.in.attr))
          => SameOutcome(set(last.in.object_type, last.in.oid, ById(last.in.attr),
                             last.in.value, last.in.footer), last)
    /\ (last.op = "get" /\ KnownName(last.in.attr))
          => LET r == get(last.in.object_type, last.in.oid, ById(last.in.attr),
                          last.in.with_metadata, last.in.value, modules, last.in.footer)
             IN SameOutcome(r, last) /\ r.values = last.values
    /\ (last.op = "create" /\ \E i \in DOMAIN last.in.attrs : KnownName(last.in.attrs[i].key))
          => SameOutcome(create(last.in.object_type, AttrsById(last.in.attrs),
                                last.in.module_id, modules, last.in.getFooter,
                                last.in.footer), last)

\* The call was handed a resolved descriptor as (one of) its references.
GivenDescriptor ==
    \/ /\ last.op \in {"get_attribute_metadata", "get_attribute_capability", "set", "get",
                        "monitor"}
       /\ last.in.attr.t = "meta"
    \/ /\ last.op = "create"
       /\ \E i \in DOMAIN last.in.attrs : last.in.attrs[i].key.t = "meta"

\* The number of metadata requests sent during the call.
Lookups(calls) ==
    Cardinality({k \in DOMAIN calls : calls[k] = "send:GetAttributeMetadata"})

\* The metadata requests a call may send for references other than its
\* descriptors: one per int or str key of create and one for the parent
\* module's location; none in the operations with a single reference.
OtherLookups ==
    IF last.op = "create"
    THEN Cardinality({i \in DOMAIN last.in.attrs : last.in.attrs[i].key.t # "meta"})
             + (IF last.in.module_id # 0 THEN 1 ELSE 0)
    ELSE 0

\* C15: in every operation taking an attribute reference (get descriptor, get
\* capability, set, get, create, monitor) a resolved descriptor is accepted
\* and passes through unchanged: no metadata lookup is issued for it and the
\* invalid-argument error is not raised.
C15_DescriptorPassesThrough ==
    GivenDescriptor
        => /\ last.ret # PyException("Exception", <<"invalid argument">>)
           /\ Lookups(last.calls) <= OtherLookups
           /\ last.op \in {"get_attribute_metadata", "monitor"}
                  => last.metadata = AsMeta(last.in.attr)

\* The position of the last event e in the trace calls, 0 when there is none.
LastAt(calls, e) ==
    IF e \in Issued(calls) THEN CHOOSE k \in DOMAIN calls :
                                    calls[k] = e /\ \A j \in DOMAIN calls : calls[j] = e => j <= k
    ELSE 0

\* C16: a successful create_netif(index) or create_hostif(index) issues the
\* module listing strictly after the create exchange has completed, replaces
\* the Module's cached record with the listed one, and returns the child at
\* position index of the refreshed record: the child's id and index are the
\* remote's after the create, not the cached ones or the create response.
C16_RefetchedChild ==
    mobj.pc = "returned"
        => /\ LastAt(mobj.calls, "close:Create") > 0
           /\ LastAt(mobj.calls, "unary:ListModule") > LastAt(mobj.calls, "close:Create")
           /\ mobj.obj = netifs
           /\ mobj.child = netifs[mobj.index + 1]

\* The call returned a child whose index or id differs from what the index
\* asked for and the create response would give.
C16_Witness ==
    /\ mobj.pc = "returned"
    /\ mobj.changed
    /\ mobj.child # ChildRec(mobj.index, mobj.ret.code)

\* The number of Set or Get requests sent during the call.
Exchanges(calls) ==
    Cardinality({k \in DOMAIN calls : calls[k] \in {"send:SetAttribute", "send:GetAttribute"}})

\* The lookups the batch of the call asks for: one per name, and for
\* get_multiple with metadata one per numeric reference.
ExpectedLookups ==
    IF last.op = "set_multiple"
    THEN Cardinality({i \in DOMAIN last.in.attrs : last.in.attrs[i].key.t = "str"})
    ELSE Cardinality({i \in DOMAIN last.in.attributes :
                         \/ last.in.attributes[i].ref.t = "str"
                         \/ last.in.attributes[i].ref.t = "int" /\ last.in.with_metadata})

\* C17 as stated: set_multiple and get_multiple, on a batch of references,
\* issue exactly one Set (resp. Get) exchange per call whatever the batch
\* size, and as many metadata lookups as the batch has names, plus its
\* numeric references for get_multiple with metadata.
C17_ExactCounts ==
    (/\ last.op \in {"set_multiple", "get_multiple"}
     /\ \A i \in DOMAIN last.in.attributes : ~last.in.attributes[i].tuple)
        => /\ Exchanges(last.calls) = 1
           /\ Lookups(last.calls) = ExpectedLookups

\* C17 amended: a set_multiple or get_multiple call that does not raise
\* before its exchange issues exactly one Set (resp. Get) exchange whatever
\* the batch size and exactly the lookups its batch asks for; a call that
\* raises before it (a metadata lookup failed) issues no Set or Get exchange
\* and at most those lookups.
C17_CountsUnlessRaised ==
    last.op \in {"set_multiple", "get_multiple"}
        => IF IsException(last.ret) /\ Exchanges(last.calls) = 0
           THEN Lookups(last.calls) <= ExpectedLookups
           ELSE /\ Exchanges(last.calls) = 1
                /\ Lookups(last.calls) = ExpectedLookups

\* A get_multiple with metadata on a numeric reference and a name that
\* returned: two lookups, one exchange.
C17_Witness ==
    /\ last.op = "get_multiple"
    /\ last.in.with_metadata
    /\ ~IsException(last.ret)
    /\ Len(last.in.attributes) = 2
    /\ last.in.attributes[1].ref.t = "int"
    /\ last.in.attributes[2].ref.t = "str"
    /\ Lookups(last.calls) = 2

\* A reference the call can resolve: a descriptor, or an id or name the
\* remote metadata knows.
Resolvable(ref) == ref.t = "meta" \/ DescriptorOf(ref) # EmptyMeta

\* C18: get_multiple accepts every batch of references and (reference, value
\* hint) pairs, of the three kinds in any position: it sends one request
\* with one entry per input attribute, in input order, each with the
\* attribute's resolved id; a hint never reaches the entry of another
\* attribute and never makes the call fail before the request is sent.
C18_HintsScoped ==
    (/\ last.op = "get_multiple"
     /\ \A i \in DOMAIN last.in.attributes : Resolvable(last.in.attributes[i].ref))
        => /\ Exchanges(last.calls) = 1
           /\ Len(last.req) = Len(last.in.attributes)
           /\ \A i \in DOMAIN last.req :
                 /\ last.req[i].attr_id = DescriptorOf(last.in.attributes[i].ref).attr_id
                 /\ ~last.in.attributes[i].tuple => last.req[i].value = ""

AfterClose == IF closepc = "open" THEN {} ELSE (sentAt + 1)..nsub

\* Once the worker has taken the sentinel, in_q holds every later request,
\* in order: none is dequeued.
NeverDequeued ==
    wpc = "done"
        => [k \in DOMAIN in_q |-> in_q[k].id] = [k \in 1..(nsub - sentAt) |-> sentAt + k]

\* A request enqueued after close() is not dispatched and gets no reply.
NeverDispatched == \A k \in AfterClose : ~HasReply(k) /\ k \notin inflight

\* C20: once the worker has dequeued the sentinel it never dequeues or
\* dispatches again: a request enqueued after close() is never dispatched,
\* no reply is ever enqueued for it, and the caller that submitted it stays
\* blocked in out_q.get().
C20_BlockedAfterClose ==
    /\ NeverDequeued
    /\ NeverDispatched
    /\ \A t \in Callers : mine[t] \in AfterClose => cpc[t] = "blocked"

====
